---- MODULE Spec2Model ----
(***************************************************************************)
(* Model of rce_minimal_prices_2025.py: fetch_rce_data (paginated GET),    *)
(* compute_daily_minimums (coercion, hourly mean, daily minimum) and main  *)
(* (fetch -> aggregate -> write -> exit status).                           *)
(*                                                                         *)
(* Timestamps are minutes since 2025-01-01 00:00.  A price average is an   *)
(* exact fraction in lowest terms.                                         *)
(***************************************************************************)
EXTENDS Integers, Sequences, FiniteSets, TLC

\* ------------------------------------------------------------------ bounds
MaxLen == 3        \* longest batch given to compute_daily_minimums alone
MaxPages == 3      \* requests / pages kept in the history of a run
MaxRecords == 3    \* most records a run accumulates in all_records
MaxPageLen == 2    \* most records in one page

\* --------------------------------------------------------------- raw data
\* A JSON field of a record: a well-formed value, a value that coercion
\* rejects ("junk"), or no such key in the record ("missing").
IsoTs(d, h, m) == [kind |-> "iso", d |-> d, h |-> h, m |-> m]
JunkTs == [kind |-> "junk", d |-> 0, h |-> 0, m |-> 0]
MissingTs == [kind |-> "missing", d |-> 0, h |-> 0, m |-> 0]
Num(v) == [kind |-> "num", v |-> v]
JunkPrice == [kind |-> "junk", v |-> 0]
MissingPrice == [kind |-> "missing", v |-> 0]

RawTimestamps ==
    {IsoTs(0, 3, 0), IsoTs(0, 3, 47), IsoTs(0, 7, 0), IsoTs(1, 3, 15),
     JunkTs, MissingTs}
RawPrices == {Num(5), Num(10), JunkPrice, MissingPrice}
RawRecords == [udtczas : RawTimestamps, rce_pln : RawPrices]

\* Records the modelled server puts on its pages.
PipeRecords ==
    {[udtczas |-> IsoTs(0, 3, 0), rce_pln |-> Num(10)],
     [udtczas |-> IsoTs(0, 7, 0), rce_pln |-> Num(5)],
     [udtczas |-> IsoTs(0, 3, 47), rce_pln |-> JunkPrice]}

SeqsUpTo(S, n) == UNION {[1..k -> S] : k \in 0..n}

\* ------------------------------------------------------- compute_daily_...
NaT == -1
NaN == [nan |-> TRUE, v |-> 0]

\* pd.to_datetime(..., errors="coerce")
to_datetime(x) ==
    IF x.kind = "iso" THEN x.d * 1440 + x.h * 60 + x.m ELSE NaT

\* pd.to_numeric(..., errors="coerce")
to_numeric(y) ==
    IF y.kind = "num" THEN [nan |-> FALSE, v |-> y.v] ELSE NaN

\* "udtczas" in df / "rce_pln" in df: a column exists when some record has the key
HasColumn(data, f) == \E i \in 1..Len(data) : data[i][f].kind /= "missing"

Coerce(data) ==
    [i \in 1..Len(data) |->
        [udtczas |-> to_datetime(data[i].udtczas),
         rce_pln |-> to_numeric(data[i].rce_pln)]]

\* dropna(subset=["udtczas"]) only: a price that failed coercion stays
NotNa_TimestampOnly(r) == r.udtczas /= NaT

NotNa(r) == r.udtczas /= NaT /\ ~r.rce_pln.nan

\* df.dropna(subset=["udtczas", "rce_pln"])
dropna(df) == SelectSeq(df, NotNa)

\* dt.round("H") instead of dt.floor("H")
floorH_Round(t) == (t + 30) - ((t + 30) % 60)

\* Series.dt.floor("H")
floorH(t) == t - (t % 60)

\* Series.dt.date
dateOf(t) == t \div 1440

Abs(n) == IF n < 0 THEN -n ELSE n

RECURSIVE GCD(_, _)
GCD(a, b) == IF b = 0 THEN a ELSE GCD(b, a % b)

RECURSIVE SumTo(_, _)
SumTo(s, n) == IF n = 0 THEN 0 ELSE s[n] + SumTo(s, n - 1)

Sum(s) == SumTo(s, Len(s))

\* the element of a one-element set: {e(x) : x \in {v}} names the value v as x
Only(S) == CHOOSE x \in S : TRUE

\* Series.mean(): the sum over the count, as a fraction in lowest terms
Mean(prices) ==
    LET s == Sum(prices)
        n == Len(prices)
        g == GCD(n, Abs(s))
    IN  [num |-> s \div g, den |-> n \div g]

FracLess(a, b) == a.num * b.den < b.num * a.den

SetMin(S) == CHOOSE m \in S : \A x \in S : m <= x

\* the elements of S in ascending order (the key order of a groupby)
SortedSeq(S) ==
    [k \in 1..Cardinality(S) |->
        CHOOSE x \in S : Cardinality({y \in S : y < x}) = k - 1]

\* the prices of the rows of df whose godzina is k, in row order
GroupPrices(df, k) ==
    LET rows == SelectSeq(df, LAMBDA r : floorH(r.udtczas) = k)
    IN  [i \in 1..Len(rows) |-> rows[i].rce_pln.v]

\* df.groupby("godzina", as_index=False)["rce_pln"].mean() plus the data column
Hourly(df) ==
    LET keys == SortedSeq({floorH(df[i].udtczas) : i \in 1..Len(df)})
    IN  [j \in 1..Len(keys) |->
            [godzina |-> keys[j],
             cena_godzinna |-> Mean(GroupPrices(df, keys[j])),
             data |-> dateOf(keys[j])]]

\* ties on the price resolved towards the latest hour
RowBefore_LatestHour(a, b) ==
    \/ a.data < b.data
    \/ a.data = b.data /\ FracLess(a.cena_godzinna, b.cena_godzinna)
    \/ a.data = b.data /\ a.cena_godzinna = b.cena_godzinna
                       /\ a.godzina > b.godzina

\* row order of sort_values(by=["data", "cena_godzinna", "godzina"])
RowBefore(a, b) ==
    \/ a.data < b.data
    \/ a.data = b.data /\ FracLess(a.cena_godzinna, b.cena_godzinna)
    \/ a.data = b.data /\ a.cena_godzinna = b.cena_godzinna
                       /\ a.godzina < b.godzina

\* place of row i in the sorted frame: rows that sort before it come first,
\* rows that compare equal keep their order (the sort is stable)
Rank(frame, i) ==
    Cardinality({j \in 1..Len(frame) :
        \/ RowBefore(frame[j], frame[i])
        \/ ~RowBefore(frame[i], frame[j]) /\ j <= i})

sort_values(frame) ==
    [k \in 1..Len(frame) |->
        frame[CHOOSE i \in 1..Len(frame) : Rank(frame, i) = k]]

\* the sorted frame without the reduction to the first row of each date
GroupFirst_AllRows(frame) == frame

\* .groupby("data", as_index=False).first(): groups in ascending key order,
\* each reduced to its first row
GroupFirst(frame) ==
    LET keys == SortedSeq({frame[i].data : i \in 1..Len(frame)})
        firstOf(d) == frame[SetMin({i \in 1..Len(frame) : frame[i].data = d})]
    IN  [j \in 1..Len(keys) |-> firstOf(keys[j])]

\* astype(str) of a datetime.date
FormatDate(d) == [Y |-> 2025, m |-> 1, d |-> d + 1]

\* strftime("%Y-%m-%d %H:%M")
FormatHour(t) ==
    [Y |-> 2025, m |-> 1, d |-> (t \div 1440) + 1,
     H |-> (t % 1440) \div 60, M |-> t % 60]

\* the renamed and formatted columns of daily_min
Result(daily_min) ==
    [j \in 1..Len(daily_min) |->
        [data |-> FormatDate(daily_min[j].data),
         godzina_min |-> FormatHour(daily_min[j].godzina),
         cena_min_godzinna_PLN_MWh |-> daily_min[j].cena_godzinna]]

DailyMin(hourlyFrame) ==
    Only({Result(daily_min) :
            daily_min \in {GroupFirst(sorted) :
                             sorted \in {sort_values(hourlyFrame)}}})

\* the frame returned for the hourly frame godziny
Reduce(godziny) == [err |-> "", hourly |-> godziny, result |-> DailyMin(godziny)]

\* without the `if df.empty` check
compute_daily_minimums_NoEmptyCheck(data) ==
    IF ~HasColumn(data, "udtczas") \/ ~HasColumn(data, "rce_pln")
    THEN [err |-> "missing_fields", hourly |-> <<>>, result |-> <<>>]
    ELSE Only({Reduce(godziny) :
                 godziny \in {Hourly(df) : df \in {dropna(Coerce(data))}}})

\* outcome of compute_daily_minimums(data): the raised message, or the frame
compute_daily_minimums(data) ==
    IF ~HasColumn(data, "udtczas") \/ ~HasColumn(data, "rce_pln")
    THEN [err |-> "missing_fields", hourly |-> <<>>, result |-> <<>>]
    ELSE Only({IF df = <<>>
               THEN [err |-> "no_valid_data", hourly |-> <<>>, result |-> <<>>]
               ELSE Only({Reduce(godziny) : godziny \in {Hourly(df)}}) :
                 df \in {dropna(Coerce(data))}})

\* ------------------------------------------------------------ the server
API_URL == "https://api.raporty.pse.pl/api/rce-pln"
NoLink == ""      \* "@odata.nextLink" absent, null or empty: falsy in `while next_url`
Links == {API_URL, "https://api.raporty.pse.pl/api/rce-pln?$skiptoken=a"}

NoFile == [written |-> FALSE, rows |-> <<>>]

\* an answer with a JSON object that has a "value" list
Pages == [kind : {"ok"}, value : SeqsUpTo(PipeRecords, MaxPageLen),
          next : Links \cup {NoLink}]
Failure(k) == [kind |-> k, value |-> <<>>, next |-> NoLink]

VARIABLES
    pc,              \* "fetch", "aggregate", "write", "done": where main is
    next_url,        \* fetch_rce_data: URL of the next request
    all_records,     \* fetch_rce_data: records accumulated so far
    records,         \* main: what fetch_rce_data returned (<<>> until it returns)
    hourly,          \* compute_daily_minimums: the hourly frame
    minimal_prices,  \* main: what compute_daily_minimums returned
    file,            \* content of OUTPUT_CSV, NoFile until written
    exit_status,     \* -1 while running, then the status of the process
    stderr,          \* message printed on the error stream, "" if none
    stdout,          \* row count reported on success, -1 if none
    requests,        \* history: the first MaxPages requests issued
    served,          \* history: the answers to them
    nreq             \* history: number of requests issued, up to MaxPages + 1

vars == <<pc, next_url, all_records, records, hourly, minimal_prices, file,
          exit_status, stderr, stdout, requests, served, nreq>>

fetchVars == <<next_url, all_records>>
mainVars == <<records, hourly, minimal_prices, file, stdout>>
history == <<requests, served, nreq>>

\* params=params if next_url == API_URL else None
RequestParams(url) == url = API_URL

\* requests.get(next_url, ...) answered by resp
Exchange(resp) ==
    /\ requests' = IF Len(requests) < MaxPages
                   THEN Append(requests,
                               [url |-> next_url, params |-> RequestParams(next_url)])
                   ELSE requests
    /\ served' = IF Len(served) < MaxPages THEN Append(served, resp) ELSE served
    /\ nreq' = IF nreq <= MaxPages THEN nreq + 1 ELSE nreq

\* the error is printed but the process ends with status 0
Terminate_StatusZero(msg) ==
    /\ pc' = "done"
    /\ exit_status' = 0
    /\ stderr' = msg

\* An exception that leaves main: SystemExit(msg) passes `except Exception`
\* and the interpreter prints msg and exits with 1; any Exception is caught,
\* printed and turned into sys.exit(1).
Terminate(msg) ==
    /\ pc' = "done"
    /\ exit_status' = 1
    /\ stderr' = msg

InLoop == pc = "fetch" /\ next_url /= NoLink

Init ==
    /\ pc = "fetch"
    /\ next_url = API_URL
    /\ all_records = <<>>
    /\ records = <<>>
    /\ hourly = <<>>
    /\ minimal_prices = <<>>
    /\ file = NoFile
    /\ exit_status = -1
    /\ stderr = ""
    /\ stdout = -1
    /\ requests = <<>>
    /\ served = <<>>
    /\ nreq = 0

\* a failed request taken as the end of the pagination
RequestFails_EndsPagination ==
    /\ InLoop
    /\ Exchange(Failure("transport_error"))
    /\ next_url' = NoLink
    /\ UNCHANGED <<pc, exit_status, stderr, all_records, mainVars>>

\* requests.get or raise_for_status raises RequestException
RequestFails ==
    /\ InLoop
    /\ Exchange(Failure("transport_error"))
    /\ Terminate("fetch_error")
    /\ UNCHANGED <<fetchVars, mainVars>>

\* response.json() raises ValueError
JsonInvalid ==
    /\ InLoop
    /\ Exchange(Failure("bad_json"))
    /\ Terminate("bad_json")
    /\ UNCHANGED <<fetchVars, mainVars>>

\* the body is JSON but not an object: payload.get raises AttributeError
PayloadUnexpected ==
    /\ InLoop
    /\ Exchange(Failure("not_object"))
    /\ Terminate("unexpected")
    /\ UNCHANGED <<fetchVars, mainVars>>

\* payload.get("value") is None
ValueMissing ==
    /\ InLoop
    /\ Exchange(Failure("no_value"))
    /\ Terminate("no_value")
    /\ UNCHANGED <<fetchVars, mainVars>>

\* the new page put in front of the accumulated records
Extend_Prepend(acc, page) == page.value \o acc

Extend(acc, page) == acc \o page.value

\* a page with a "value" list: extend all_records, take the next link
PageOk ==
    /\ InLoop
    /\ \E page \in Pages :
        /\ Len(all_records) + Len(page.value) <= MaxRecords
        /\ Exchange(page)
        /\ all_records' = Extend(all_records, page)
        /\ next_url' = page.next
    /\ UNCHANGED <<pc, exit_status, stderr, mainVars>>

\* the loop is over with no record at all
FetchEmpty ==
    /\ pc = "fetch"
    /\ next_url = NoLink
    /\ all_records = <<>>
    /\ Terminate("no_data")
    /\ UNCHANGED <<fetchVars, mainVars, history>>

\* return all_records
FetchReturns ==
    /\ pc = "fetch"
    /\ next_url = NoLink
    /\ all_records /= <<>>
    /\ records' = all_records
    /\ pc' = "aggregate"
    /\ UNCHANGED <<fetchVars, hourly, minimal_prices, file, stdout,
                   exit_status, stderr, history>>

\* minimal_prices = compute_daily_minimums(records)
Aggregate ==
    /\ pc = "aggregate"
    /\ \E out \in {compute_daily_minimums(records)} :
         IF out.err /= ""
         THEN /\ Terminate(out.err)
              /\ UNCHANGED <<hourly, minimal_prices>>
         ELSE /\ pc' = "write"
              /\ hourly' = out.hourly
              /\ minimal_prices' = out.result
              /\ UNCHANGED <<exit_status, stderr>>
    /\ UNCHANGED <<fetchVars, records, file, stdout, history>>

\* to_csv succeeds, the row count is printed, main returns
WriteOk ==
    /\ pc = "write"
    /\ file' = [written |-> TRUE, rows |-> minimal_prices]
    /\ stdout' = Len(minimal_prices)
    /\ pc' = "done"
    /\ exit_status' = 0
    /\ UNCHANGED <<fetchVars, records, hourly, minimal_prices, stderr, history>>

\* to_csv raises OSError: the destination cannot be opened
WriteFails ==
    /\ pc = "write"
    /\ Terminate("io_error")
    /\ UNCHANGED <<fetchVars, mainVars, history>>

Next ==
    \/ RequestFails
    \/ JsonInvalid
    \/ PayloadUnexpected
    \/ ValueMissing
    \/ PageOk
    \/ FetchEmpty
    \/ FetchReturns
    \/ Aggregate
    \/ WriteOk
    \/ WriteFails

Spec == Init /\ [][Next]_vars

\* every step that is possible is eventually taken: the interpreter keeps
\* running and every request returns or fails within its timeout
SpecLive == Init /\ [][Next]_vars /\ WF_vars(Next)

\* compute_daily_minimums and the rest of main on an arbitrary batch
InitAgg ==
    /\ pc = "aggregate"
    /\ next_url = NoLink
    /\ records \in SeqsUpTo(RawRecords, MaxLen)
    /\ all_records = records
    /\ hourly = <<>>
    /\ minimal_prices = <<>>
    /\ file = NoFile
    /\ exit_status = -1
    /\ stderr = ""
    /\ stdout = -1
    /\ requests = <<>>
    /\ served = <<>>
    /\ nreq = 0

NextAgg ==
    \/ Aggregate
    \/ WriteOk
    \/ WriteFails

SpecAgg == InitAgg /\ [][NextAgg]_vars

\* ================================================================ claims

RECURSIVE ConcatValues(_)
ConcatValues(pages) ==
    IF pages = <<>> THEN <<>> ELSE Head(pages).value \o ConcatValues(Tail(pages))

\* the history holds every request of the run
HistoryComplete == nreq <= MaxPages

\* the server answered with a chain of well-formed pages: a link on every
\* page but the last, none on the last, and a record somewhere
ChainServed ==
    /\ HistoryComplete
    /\ Len(served) >= 1
    /\ \A k \in 1..Len(served) : served[k].kind = "ok"
    /\ \A k \in 1..(Len(served) - 1) : served[k].next /= NoLink
    /\ served[Len(served)].next = NoLink
    /\ ConcatValues(served) /= <<>>

FetchMessages == {"fetch_error", "bad_json", "unexpected", "no_value", "no_data"}
AggregateMessages == {"missing_fields", "no_valid_data"}

\* C1: when the server answers with a chain of N pages, fetch_rce_data issues
\* one request per page, the first to API_URL and each next one to the link of
\* the page before, raises nothing, and returns the concatenation of the N
\* value arrays in page order.
C1_PaginationComplete ==
    ChainServed =>
        /\ Len(requests) = Len(served)
        /\ nreq = Len(served)
        /\ requests[1].url = API_URL
        /\ \A k \in 1..(Len(served) - 1) : requests[k + 1].url = served[k].next
        /\ stderr \notin FetchMessages
        /\ all_records = ConcatValues(served)
        /\ pc /= "fetch" => records = ConcatValues(served)

C1_Witness ==
    /\ ChainServed
    /\ pc = "aggregate"
    /\ Len(served) >= 2
    /\ served[1].value /= <<>>
    /\ served[2].value /= <<>>
    /\ served[1].value /= served[2].value

\* compute_daily_minimums returned a frame
AggregateDone == pc \in {"write", "done"} /\ stderr \notin AggregateMessages

Buckets == {hourly[j] : j \in 1..Len(hourly)}
Rows == {minimal_prices[j] : j \in 1..Len(minimal_prices)}

\* C2: for every date of the hourly buckets, the row of that date names an
\* hour of that date whose average is at most the average of every hour of
\* the date, and the earliest of the hours that share this minimum.
C2_EarliestMinimum ==
    AggregateDone =>
        \A b \in Buckets :
            /\ \E row \in Rows : row.data = FormatDate(b.data)
            /\ \A row \in Rows :
                row.data = FormatDate(b.data) =>
                    \E g \in Buckets :
                        /\ g.data = b.data
                        /\ row.godzina_min = FormatHour(g.godzina)
                        /\ row.cena_min_godzinna_PLN_MWh = g.cena_godzinna
                        /\ \A o \in Buckets :
                            o.data = b.data =>
                                /\ o.cena_godzinna.num * g.cena_godzinna.den
                                     >= g.cena_godzinna.num * o.cena_godzinna.den
                                /\ o.cena_godzinna = g.cena_godzinna
                                     => g.godzina <= o.godzina

C2_Witness ==
    /\ AggregateDone
    /\ \E b1 \in Buckets, b2 \in Buckets :
        /\ b1.data = b2.data
        /\ b1.godzina < b2.godzina
        /\ b1.cena_godzinna = b2.cena_godzinna
        /\ \E row \in Rows : row.godzina_min = FormatHour(b1.godzina)

IsValid(r) == r.udtczas.kind = "iso" /\ r.rce_pln.kind = "num"
ValidIdx == {i \in 1..Len(records) : IsValid(records[i])}
Minutes(r) == r.udtczas.d * 1440 + r.udtczas.h * 60 + r.udtczas.m
ValidDates == {[Y |-> 2025, m |-> 1, d |-> records[i].udtczas.d + 1] : i \in ValidIdx}

DateLess(a, b) ==
    \/ a.Y < b.Y
    \/ a.Y = b.Y /\ a.m < b.m
    \/ a.Y = b.Y /\ a.m = b.m /\ a.d < b.d

\* C3: the output has exactly one row for each calendar date of the valid
\* records, no row for another date, and the rows are in strictly ascending
\* date order.
C3_OneRowPerDate ==
    AggregateDone =>
        /\ {row.data : row \in Rows} = ValidDates
        /\ Len(minimal_prices) = Cardinality(ValidDates)
        /\ \A j \in 1..(Len(minimal_prices) - 1) :
            DateLess(minimal_prices[j].data, minimal_prices[j + 1].data)

C3_Witness ==
    /\ AggregateDone
    /\ Len(minimal_prices) = 2
    /\ \E i \in ValidIdx, j \in ValidIdx :
        i < j /\ records[i].udtczas.d > records[j].udtczas.d
    /\ \E i \in ValidIdx, j \in ValidIdx :
        i /= j /\ records[i].udtczas.d = records[j].udtczas.d

\* the valid records whose timestamp lies in the hour that starts at g
InHour(g) == {i \in ValidIdx : g <= Minutes(records[i]) /\ Minutes(records[i]) < g + 60}

RECURSIVE PriceSum(_)
PriceSum(idx) ==
    IF idx = {} THEN 0
    ELSE LET i == CHOOSE x \in idx : TRUE
         IN  records[i].rce_pln.v + PriceSum(idx \ {i})

\* C4: every valid record lies in exactly one hourly bucket, the one of its
\* timestamp with the minutes cut off; buckets have distinct hours and at
\* least one record each; a bucket's average is the sum of its records'
\* prices over their count (05:47 goes to 05:00; 10, 20, 30, 40 give 25).
C4_HourlyBuckets ==
    /\ floorH(5 * 60 + 47) = 5 * 60
    /\ Mean(<<10, 20, 30, 40>>) = [num |-> 25, den |-> 1]
    /\ AggregateDone =>
        /\ \A i \in ValidIdx :
            /\ Cardinality({j \in 1..Len(hourly) : i \in InHour(hourly[j].godzina)}) = 1
            /\ \E j \in 1..Len(hourly) :
                hourly[j].godzina = records[i].udtczas.d * 1440
                                      + records[i].udtczas.h * 60
        /\ \A j \in 1..Len(hourly), k \in 1..Len(hourly) :
            j /= k => hourly[j].godzina /= hourly[k].godzina
        /\ \A j \in 1..Len(hourly) :
            LET g == hourly[j].godzina
                avg == hourly[j].cena_godzinna
            IN  /\ g % 60 = 0
                /\ InHour(g) /= {}
                /\ avg.den > 0
                /\ avg.num * Cardinality(InHour(g)) = PriceSum(InHour(g)) * avg.den

C4_Witness ==
    /\ AggregateDone
    /\ \E j \in 1..Len(hourly) :
        /\ Cardinality(InHour(hourly[j].godzina)) >= 2
        /\ hourly[j].cena_godzinna.den = 2
        /\ \E i \in InHour(hourly[j].godzina) : records[i].udtczas.m = 47

ValidOnly(data) == SelectSeq(data, IsValid)

\* C5: with at least one valid record compute_daily_minimums does not fail and
\* returns what it returns on the subsequence of the valid records alone.
C5_InvalidDropped ==
    (pc /= "aggregate" /\ ValidIdx /= {}) =>
        /\ stderr \notin AggregateMessages
        /\ compute_daily_minimums(ValidOnly(records)).err = ""
        /\ minimal_prices = compute_daily_minimums(ValidOnly(records)).result
        /\ hourly = compute_daily_minimums(ValidOnly(records)).hourly

C5_Witness ==
    /\ AggregateDone
    /\ ValidIdx /= {}
    /\ \E i \in 1..Len(records) :
        records[i].udtczas.kind = "iso" /\ records[i].rce_pln.kind = "junk"
    /\ \E i \in 1..Len(records) :
        records[i].udtczas.kind = "junk" /\ records[i].rce_pln.kind = "num"

\* a batch that reaches the coercion and loses every record to it
AllInvalid ==
    /\ records /= <<>>
    /\ HasColumn(records, "udtczas")
    /\ HasColumn(records, "rce_pln")
    /\ ValidIdx = {}

C7_TransportAborts ==
    /\ \A k \in 1..Len(served) :
        served[k].kind = "transport_error" =>
            /\ k = Len(served)
            /\ Len(requests) = k
            /\ nreq = k
            /\ stderr = "fetch_error"
    /\ stderr = "fetch_error" =>
        /\ pc = "done"
        /\ exit_status = 1
        /\ records = <<>>
        /\ minimal_prices = <<>>
        /\ file = NoFile

C7_Witness ==
    /\ stderr = "fetch_error"
    /\ Len(served) >= 2
    /\ served[Len(served)].kind = "transport_error"
    /\ all_records /= <<>>

\* C8: the stages run in the order fetch, aggregate, write; the file is
\* written only after fetch and aggregate succeeded; status 0 only after the
\* write succeeded; a failure of a stage skips the later stages and ends the
\* process with status 1 and a message on the error stream.
C8_StagesInOrder ==
    /\ pc = "fetch" => records = <<>> /\ minimal_prices = <<>> /\ file = NoFile
    /\ pc = "aggregate" => records /= <<>> /\ minimal_prices = <<>> /\ file = NoFile
    /\ pc = "write" => records /= <<>> /\ minimal_prices /= <<>> /\ file = NoFile
    /\ pc = "done" <=> exit_status \in {0, 1}
    /\ pc /= "done" => exit_status = -1 /\ stderr = ""
    /\ file /= NoFile =>
        /\ records /= <<>>
        /\ minimal_prices /= <<>>
        /\ file.rows = minimal_prices
        /\ stderr = ""
    /\ exit_status = 0 =>
        /\ file /= NoFile
        /\ stdout = Len(file.rows)
        /\ stderr = ""
    /\ exit_status = 1 => stderr /= "" /\ file = NoFile /\ stdout = -1
    /\ stderr \in FetchMessages => records = <<>> /\ minimal_prices = <<>>
    /\ stderr \in AggregateMessages => records /= <<>> /\ minimal_prices = <<>>
    /\ stderr = "io_error" => records /= <<>> /\ minimal_prices /= <<>>

C8_Witness ==
    /\ pc = "done"
    /\ exit_status = 1
    /\ stderr = "no_valid_data"
    /\ records /= <<>>
    /\ file = NoFile

\* C9: the query parameters go with the first request of a run and with no
\* other request, whatever continuation link the server returns.
C9_ParamsOnFirstRequestOnly ==
    \A k \in 1..Len(requests) : requests[k].params <=> k = 1

\* C10: every run eventually ends, with status 0 or with status 1, whatever
\* the server answers.
C10_RunEnds == <>(pc = "done")
====
